---- MODULE Spec2Model ----
(***************************************************************************)
(* Shopify Partners API client (tap_shopify_partners/shopify_partners.py). *)
(*                                                                         *)
(* The model follows one call of Shopify.shopify_partners_transactions, a  *)
(* generator driven by a consumer, and the direct calls of                 *)
(* Shopify._create_headers on the clients of a process.                    *)
(*                                                                         *)
(* Strings are sequences of atoms (an atom is one character or one literal *)
(* chunk that no operation of the module looks into); str.replace works on *)
(* whole atoms.  A day string 'YYYY-MM-DD' is the sequence of its ten      *)
(* characters; a calendar date is a triple <<year, month, day>>.           *)
(***************************************************************************)
EXTENDS Integers, Sequences, FiniteSets, TLC

VARIABLES
    kwargs,            \* the keyword arguments of the call: start_date given or not, and its text
    start_date_input,  \* line 62, <<>> until read
    now,               \* the UTC calendar date of the process clock
    attr_create_headers, \* whether the attribute create_headers resolves on the client (line 84)
    names_bound,       \* whether the module globals date and DAILY resolve (lines 139, 143)
                       \* (both are looked up when the line runs: the class defines
                       \* _create_headers only and the module imports neither date nor
                       \* DAILY, so in the module as written both are FALSE; TRUE is an
                       \* object or a module namespace that supplies the names)
    CLEANERS,          \* set of keys of the cleaners registry
    QUERIES,           \* the queries registry: stream name -> template
    HEADERS,           \* the shared header template (lines 23-26)
    token,             \* client -> shopify_partners_access_token
    headers,           \* client -> self.headers: [set |-> FALSE] until composed
    pc,                \* position of the generator body
    ctl,               \* "suspended" (waits for next()), "running" or "finished"
    err,               \* the exception that ended the run, "" if none
    end_date,          \* line 69, <<>> until set
    url,               \* line 80, <<>> until built
    windows,           \* the day strings of the rrule built by _start_days_till_now
    day_idx,           \* index in windows of the window being processed, 0 before the first
    query,             \* the substituted request body of the current window
    calls,             \* the transport calls made: [day, url, headers, data]
    inflight,          \* number of requests sent and not yet answered
    response,          \* the response of the current window
    cleaner,           \* line 98: "none", "function" or "dict" (the default {})
    edges,             \* the edge list iterated by the generator expression
    edge_idx,          \* number of edges of the current window already yielded
    emitted,           \* records handed to the consumer, in order
    received,          \* history: the responses received, one per answered call
    processed,         \* history: the windows whose records were all emitted
    created_on,        \* history: the clock's date when the generator was created
    pulled_on,         \* history: the clock's date at the first next(), <<>> before it
    cleaned,           \* history: number of calls of the cleaner made by this generator
    rerun,             \* whether this generator is the second call with the same arguments
    prev_calls         \* history: the transport calls of the first call, <<>> during it

vars == <<kwargs, start_date_input, now, attr_create_headers, names_bound, CLEANERS, QUERIES, HEADERS,
          token, headers, pc, ctl, err, end_date, url, windows, day_idx, query, calls,
          inflight, response, cleaner, edges, edge_idx, emitted, received, processed,
          created_on, pulled_on, cleaned, rerun, prev_calls>>

----------------------------------------------------------------------------
(* Bounds *)

\* number of calendar days the process clock ranges over
MaxSpan == 3
\* longest edge list a response carries
MaxEdges == 2
\* longest window sequence of a run after which a second call is followed
MaxRerunSpan == 2

----------------------------------------------------------------------------
(* Strings *)

\* str.replace(old, new) where old is one atom: every occurrence is replaced
RECURSIVE Replace(_, _, _)
Replace(s, old, new) ==
    IF s = <<>> THEN <<>>
    ELSE (IF Head(s) = old THEN new ELSE <<Head(s)>>) \o Replace(Tail(s), old, new)

Contains(s, atom) == \E i \in 1..Len(s) : s[i] = atom

DigitChars == <<"0", "1", "2", "3", "4", "5", "6", "7", "8", "9">>

IsDigit(c) == \E i \in 1..10 : DigitChars[i] = c

DigitValue(c) == (CHOOSE i \in 1..10 : DigitChars[i] = c) - 1

\* int(s) for a string of decimal digits
RECURSIVE ParseInt(_)
ParseInt(s) ==
    IF s = <<>> THEN 0
    ELSE 10 * ParseInt(SubSeq(s, 1, Len(s) - 1)) + DigitValue(s[Len(s)])

\* '%0<width>d' % n
RECURSIVE ZeroPad(_, _)
ZeroPad(n, width) ==
    IF width = 0 THEN <<>>
    ELSE ZeroPad(n \div 10, width - 1) \o <<DigitChars[(n % 10) + 1]>>

\* s.split('-'): the fields between the dashes
RECURSIVE SplitDash(_)
SplitDash(s) ==
    IF ~Contains(s, "-") THEN <<s>>
    ELSE LET i == CHOOSE k \in 1..Len(s) : s[k] = "-" /\ \A j \in 1..(k - 1) : s[j] # "-"
         IN  <<SubSeq(s, 1, i - 1)>> \o SplitDash(SubSeq(s, i + 1, Len(s)))

----------------------------------------------------------------------------
(* Calendar *)

IsLeap(y) == (y % 4 = 0 /\ y % 100 # 0) \/ y % 400 = 0

DaysInMonth(y, m) ==
    IF m = 2 THEN (IF IsLeap(y) THEN 29 ELSE 28)
    ELSE IF m \in {4, 6, 9, 11} THEN 30 ELSE 31

\* date(year, month, day) accepts exactly the dates of the calendar
ValidDate(y, m, d) == m \in 1..12 /\ d >= 1 /\ d <= DaysInMonth(y, m)

\* the date one day after dt
NextDate(dt) ==
    IF dt[3] < DaysInMonth(dt[1], dt[2]) THEN <<dt[1], dt[2], dt[3] + 1>>
    ELSE IF dt[2] < 12 THEN <<dt[1], dt[2] + 1, 1>>
    ELSE <<dt[1] + 1, 1, 1>>

\* a <= b on dates
DateLeq(a, b) ==
    \/ a[1] < b[1]
    \/ a[1] = b[1] /\ a[2] < b[2]
    \/ a[1] = b[1] /\ a[2] = b[2] /\ a[3] <= b[3]

\* date_day.strftime('%Y-%m-%d')
strftime(dt) ==
    ZeroPad(dt[1], 4) \o <<"-">> \o ZeroPad(dt[2], 2) \o <<"-">> \o ZeroPad(dt[3], 2)

\* rrule(freq=DAILY, dtstart=period, until=...): every day from dtstart
\* through until, both included
RECURSIVE rrule(_, _)
rrule(dtstart, until) ==
    IF ~DateLeq(dtstart, until) THEN <<>>
    ELSE <<dtstart>> \o rrule(NextDate(dtstart), until)

----------------------------------------------------------------------------
(* Module constants, lines 17-26 *)

API_SCHEME == <<"https://">>
API_BASE_URL == <<"partners.shopify.com/">>
API_ORG_ID == <<":organization_id:", "/">>
API_VERSION == <<"api/2022-01/">>
API_PATH_CALL_TYPE == <<"graphql.json">>

HeaderNames == {"Content-Type", "X-Shopify-Access-Token"}

\* the value HEADERS is bound to at import
FrozenHeaders ==
    [h \in HeaderNames |->
        IF h = "Content-Type" THEN <<"application/graphql">> ELSE <<":token:">>]

----------------------------------------------------------------------------
(* The clients, the registries and the transport *)

Clients == {"c1", "c2"}

\* the client whose shopify_partners_transactions is followed
Self == "c1"

\* the access token each client was constructed with
Tokens == [c \in Clients |-> IF c = "c1" THEN <<"shpat_A">> ELSE <<"shpat_B">>]

organization_id == [c \in Clients |-> IF c = "c1" THEN <<"1001">> ELSE <<"2002">>]

NoHeaders == [set |-> FALSE, map |-> [h \in HeaderNames |-> <<>>]]

\* queries.QUERIES['transactions']: a template holding the two placeholders,
\* the first of them twice
QueryTemplates ==
    { <<"{transactions(createdAtMin:", ":fromdate:", ",createdAtMax:", ":todate:",
        "){edges} since:", ":fromdate:", "}">> }

QueryRegistries ==
    {[s \in {} |-> <<>>]} \cup {[s \in {"transactions"} |-> t] : t \in QueryTemplates}

CleanerKey == "clean_shopify_partners_transactions"

\* cleaners.clean_shopify_partners_transactions(date_day, transaction)
clean_shopify_partners_transactions(date_day, transaction) ==
    [day |-> date_day, transaction |-> transaction]

\* edge lists of a response: the first n raw edges, in either order
Ascending(n) == [i \in 1..n |-> i]
Descending(n) == [i \in 1..n |-> n + 1 - i]
EdgeLists == {Ascending(n) : n \in 0..MaxEdges} \cup {Descending(n) : n \in 0..MaxEdges}

\* what the transport answers: a status and a body that is not JSON, JSON
\* without data.transactions.edges, or JSON with an edge list
Bodies ==
    {[kind |-> "garbage", edges |-> <<>>], [kind |-> "nopath", edges |-> <<>>]}
    \cup {[kind |-> "edges", edges |-> e] : e \in EdgeLists}
Responses ==
    {[status |-> 200, body |-> b] : b \in Bodies}
    \cup {[status |-> s, body |-> [kind |-> "garbage", edges |-> <<>>]] : s \in {402, 500}}

NoResponse == [status |-> 0, body |-> [kind |-> "garbage", edges |-> <<>>]]

----------------------------------------------------------------------------
(* Inputs *)

FirstDate == <<2024, 2, 28>>

\* the first n dates from dt
RECURSIVE DatesFrom(_, _)
DatesFrom(dt, n) == IF n = 0 THEN <<>> ELSE <<dt>> \o DatesFrom(NextDate(dt), n - 1)

ClockDates == {DatesFrom(FirstDate, MaxSpan)[i] : i \in 1..MaxSpan}

\* start_date texts: every clock date and the day after the last one, a date
\* that is not of the calendar, and a year-month without a day
StartDateTexts ==
    {strftime(DatesFrom(FirstDate, MaxSpan + 1)[i]) : i \in 1..(MaxSpan + 1)}
    \cup {<<"2", "0", "2", "4", "-", "0", "2", "-", "3", "0">>,
          <<"2", "0", "2", "4", "-", "0", "2">>}

KwargsInputs ==
    {[given |-> FALSE, start_date |-> <<>>], [given |-> TRUE, start_date |-> <<>>]}
    \cup {[given |-> TRUE, start_date |-> t] : t \in StartDateTexts}

----------------------------------------------------------------------------
(* Parsing of the start date *)

AllDigits(s) == s # <<>> /\ \A i \in 1..Len(s) : IsDigit(s[i])

\* dateutil.parser.isoparse on the texts above: 'YYYY-MM-DD' or 'YYYY-MM' of a
\* calendar date; anything else raises ValueError
isoparse_ok(s) ==
    LET f == SplitDash(s)
    IN  /\ Len(f) \in {2, 3}
        /\ \A i \in 1..Len(f) : AllDigits(f[i])
        /\ Len(f[1]) = 4 /\ \A i \in 2..Len(f) : Len(f[i]) = 2
        /\ ValidDate(ParseInt(f[1]), ParseInt(f[2]), IF Len(f) = 3 THEN ParseInt(f[3]) ELSE 1)

----------------------------------------------------------------------------
(* Init *)

Init ==
    /\ kwargs \in KwargsInputs
    /\ start_date_input = <<>>
    /\ now \in ClockDates
    /\ attr_create_headers \in BOOLEAN
    /\ names_bound \in BOOLEAN
    /\ CLEANERS \in {{}, {CleanerKey}}
    /\ QUERIES \in QueryRegistries
    /\ HEADERS = FrozenHeaders
    /\ token = Tokens
    /\ headers = [c \in Clients |-> NoHeaders]
    /\ pc = "start"
    /\ ctl = "suspended"
    /\ err = ""
    /\ end_date = <<>>
    /\ url = <<>>
    /\ windows = <<>>
    /\ day_idx = 0
    /\ query = <<>>
    /\ calls = <<>>
    /\ inflight = 0
    /\ response = NoResponse
    /\ cleaner = "none"
    /\ edges = <<>>
    /\ edge_idx = 0
    /\ emitted = <<>>
    /\ received = <<>>
    /\ processed = <<>>
    /\ created_on = now
    /\ pulled_on = <<>>
    /\ cleaned = 0
    /\ rerun = FALSE
    /\ prev_calls = <<>>

----------------------------------------------------------------------------
(* Shopify._create_headers, lines 115-122 *)

\* the header map _create_headers builds for a client: a copy of HEADERS
\* with ':token:' replaced by the client's access token
composed_headers(c) ==
    [HEADERS EXCEPT !["X-Shopify-Access-Token"] =
        Replace(HEADERS["X-Shopify-Access-Token"], ":token:", token[c])]

\* _create_headers without the copy of line 117: the token is written into
\* the shared map, which every composed client then refers to
_create_headers_shared(c) ==
    /\ HEADERS' = composed_headers(c)
    /\ headers' = [d \in Clients |->
                     IF d = c \/ headers[d].set
                     THEN [set |-> TRUE, map |-> composed_headers(c)]
                     ELSE headers[d]]

\* self.headers = headers (line 122); HEADERS itself is left alone
_create_headers(c) ==
    /\ headers' = [headers EXCEPT ![c] = [set |-> TRUE, map |-> composed_headers(c)]]
    /\ HEADERS' = HEADERS

\* a caller composes the headers of a client; a composition made while the
\* generator is still alive changes nothing the generator reads that line 84
\* does not set again from the same token, so the model places the callers'
\* compositions after the run
CreateHeaders(c) ==
    /\ ctl = "finished"
    /\ _create_headers(c)
    /\ UNCHANGED <<created_on, pulled_on, cleaned, rerun, prev_calls>>
    /\ UNCHANGED <<kwargs, start_date_input, now, attr_create_headers, names_bound,
                   CLEANERS, QUERIES, token, pc, ctl, err, end_date, url, windows,
                   day_idx, query, calls, inflight, response, cleaner, edges, edge_idx,
                   emitted, received, processed>>

----------------------------------------------------------------------------
(* The clock and the consumer *)

\* the clock passes midnight; it is read last when the rrule is built
\* (line 145), so the model lets it advance until then; a second call is
\* followed with the clock staying on the day the first call ended on
Tick ==
    /\ pc \in {"start", "parse", "build", "windower"}
    /\ ~rerun
    /\ NextDate(now) \in ClockDates
    /\ now' = NextDate(now)
    /\ UNCHANGED <<created_on, pulled_on, cleaned, rerun, prev_calls>>
    /\ UNCHANGED <<kwargs, start_date_input, attr_create_headers, names_bound, CLEANERS,
                   QUERIES, HEADERS, token, headers, pc, ctl, err, end_date, url, windows,
                   day_idx, query, calls, inflight, response, cleaner, edges, edge_idx,
                   emitted, received, processed>>

\* the consumer calls next() on the generator
Pull ==
    /\ ctl = "suspended"
    /\ ctl' = "running"
    /\ pulled_on' = (IF pc = "start" THEN now ELSE pulled_on)
    /\ UNCHANGED <<created_on, cleaned, rerun, prev_calls>>
    /\ UNCHANGED <<kwargs, start_date_input, now, attr_create_headers, names_bound,
                   CLEANERS, QUERIES, HEADERS, token, headers, pc, err, end_date, url,
                   windows, day_idx, query, calls, inflight, response, cleaner, edges,
                   edge_idx, emitted, received, processed>>

\* an exception leaves the generator: the run has failed
Raise(e) ==
    /\ pc' = "failed"
    /\ err' = e
    /\ ctl' = "finished"

----------------------------------------------------------------------------
(* Shopify.shopify_partners_transactions, lines 47-113 *)

\* Validate without the test of line 64: the empty string goes on to isoparse
Validate_unchecked ==
    /\ ctl = "running" /\ pc = "start"
    /\ start_date_input' = (IF kwargs.given THEN kwargs.start_date ELSE <<>>)
    /\ pc' = "parse"
    /\ UNCHANGED <<created_on, pulled_on, cleaned, rerun, prev_calls>>
    /\ UNCHANGED <<kwargs, now, attr_create_headers, names_bound, CLEANERS, QUERIES,
                   HEADERS, token, headers, ctl, err, end_date, url, windows, day_idx,
                   query, calls, inflight, response, cleaner, edges, edge_idx, emitted,
                   received, processed>>

\* lines 61-65: read start_date, refuse the empty string
Validate ==
    /\ ctl = "running" /\ pc = "start"
    /\ LET input == IF kwargs.given THEN kwargs.start_date ELSE <<>>
       IN  /\ start_date_input' = input
           /\ IF input = <<>>
              THEN Raise("ValueError: The parameter start_date is required.")
              ELSE pc' = "parse" /\ UNCHANGED <<err, ctl>>
    /\ UNCHANGED <<created_on, pulled_on, cleaned, rerun, prev_calls>>
    /\ UNCHANGED <<kwargs, now, attr_create_headers, names_bound, CLEANERS, QUERIES,
                   HEADERS, token, headers, end_date, url, windows, day_idx, query,
                   calls, inflight, response, cleaner, edges, edge_idx, emitted,
                   received, processed>>

\* lines 67-76: parse the start date, read the clock, drop start_date from kwargs
ParseDates ==
    /\ ctl = "running" /\ pc = "parse"
    /\ IF ~isoparse_ok(start_date_input)
       THEN Raise("ValueError: isoparse") /\ UNCHANGED <<end_date, kwargs>>
       ELSE /\ end_date' = now
            /\ kwargs' = [given |-> FALSE, start_date |-> <<>>]
            /\ pc' = "build"
            /\ UNCHANGED <<err, ctl>>
    /\ UNCHANGED <<created_on, pulled_on, cleaned, rerun, prev_calls>>
    /\ UNCHANGED <<start_date_input, now, attr_create_headers, names_bound, CLEANERS,
                   QUERIES, HEADERS, token, headers, url, windows, day_idx, query, calls,
                   inflight, response, cleaner, edges, edge_idx, emitted, received,
                   processed>>

\* build_url without the replace of lines 80-83
build_url_raw(c) ==
    API_SCHEME \o API_BASE_URL \o API_ORG_ID \o API_VERSION \o API_PATH_CALL_TYPE

\* lines 79-83
build_url(c) ==
    API_SCHEME \o API_BASE_URL
    \o Replace(API_ORG_ID, ":organization_id:", organization_id[c])
    \o API_VERSION \o API_PATH_CALL_TYPE

\* lines 78-84: build the URL, then call self.create_headers(); the class
\* defines _create_headers only, so the call raises AttributeError unless the
\* object it runs on has the attribute, which then composes the headers
BuildUrlAndHeaders ==
    /\ ctl = "running" /\ pc = "build"
    /\ url' = build_url(Self)
    /\ IF ~attr_create_headers
       THEN Raise("AttributeError: create_headers") /\ UNCHANGED <<headers, HEADERS>>
       ELSE /\ _create_headers(Self)
            /\ pc' = "windower"
            /\ UNCHANGED <<err, ctl>>
    /\ UNCHANGED <<created_on, pulled_on, cleaned, rerun, prev_calls>>
    /\ UNCHANGED <<kwargs, start_date_input, now, attr_create_headers, names_bound,
                   CLEANERS, QUERIES, token, end_date, windows, day_idx, query, calls,
                   inflight, response, cleaner, edges, edge_idx, emitted, received,
                   processed>>

----------------------------------------------------------------------------
(* Shopify._start_days_till_now, lines 124-149 *)

\* what the body of _start_days_till_now does up to the rrule: the exception
\* it raises ("" if none) and the days it will yield
_start_days_till_now(start_date, clock) ==
    LET f == SplitDash(start_date)
    IN  IF ~AllDigits(f[1]) THEN [err |-> "ValueError: int", days |-> <<>>]
        ELSE IF Len(f) < 2 THEN [err |-> "IndexError", days |-> <<>>]
        ELSE IF ~AllDigits(f[2]) THEN [err |-> "ValueError: int", days |-> <<>>]
        ELSE IF Len(f) < 3 THEN [err |-> "IndexError", days |-> <<>>]
        ELSE IF ~AllDigits(f[3]) THEN [err |-> "ValueError: int", days |-> <<>>]
        ELSE IF ~names_bound THEN [err |-> "NameError: date", days |-> <<>>]
        ELSE IF ~ValidDate(ParseInt(f[1]), ParseInt(f[2]), ParseInt(f[3]))
             THEN [err |-> "ValueError: date", days |-> <<>>]
        ELSE LET period == <<ParseInt(f[1]), ParseInt(f[2]), ParseInt(f[3])>>
                 dates == rrule(period, clock)
             IN  [err |-> "", days |-> [i \in 1..Len(dates) |-> strftime(dates[i])]]

\* StartWindower leaving out the days the call before has requested
StartWindower_resumed ==
    /\ ctl = "running" /\ pc = "windower"
    /\ LET r == _start_days_till_now(start_date_input, now)
           skip == IF Len(prev_calls) <= Len(r.days) THEN Len(prev_calls) ELSE Len(r.days)
       IN  IF r.err # ""
           THEN Raise(r.err) /\ UNCHANGED windows
           ELSE /\ windows' = SubSeq(r.days, skip + 1, Len(r.days))
                /\ pc' = "next_day"
                /\ UNCHANGED <<err, ctl>>
    /\ UNCHANGED <<created_on, pulled_on, cleaned, rerun, prev_calls>>
    /\ UNCHANGED <<kwargs, start_date_input, now, attr_create_headers, names_bound,
                   CLEANERS, QUERIES, HEADERS, token, headers, end_date, url, day_idx,
                   query, calls, inflight, response, cleaner, edges, edge_idx, emitted,
                   received, processed>>

\* StartWindower with the end boundary taken when the generator was created
StartWindower_early ==
    /\ ctl = "running" /\ pc = "windower"
    /\ LET r == _start_days_till_now(start_date_input, created_on)
       IN  IF r.err # ""
           THEN Raise(r.err) /\ UNCHANGED windows
           ELSE /\ windows' = r.days
                /\ pc' = "next_day"
                /\ UNCHANGED <<err, ctl>>
    /\ UNCHANGED <<created_on, pulled_on, cleaned, rerun, prev_calls>>
    /\ UNCHANGED <<kwargs, start_date_input, now, attr_create_headers, names_bound,
                   CLEANERS, QUERIES, HEADERS, token, headers, end_date, url, day_idx,
                   query, calls, inflight, response, cleaner, edges, edge_idx, emitted,
                   received, processed>>

\* line 86, first iteration: the body of _start_days_till_now runs
StartWindower ==
    /\ ctl = "running" /\ pc = "windower"
    /\ LET r == _start_days_till_now(start_date_input, now)
       IN  IF r.err # ""
           THEN Raise(r.err) /\ UNCHANGED windows
           ELSE /\ windows' = r.days
                /\ pc' = "next_day"
                /\ UNCHANGED <<err, ctl>>
    /\ UNCHANGED <<created_on, pulled_on, cleaned, rerun, prev_calls>>
    /\ UNCHANGED <<kwargs, start_date_input, now, attr_create_headers, names_bound,
                   CLEANERS, QUERIES, HEADERS, token, headers, end_date, url, day_idx,
                   query, calls, inflight, response, cleaner, edges, edge_idx, emitted,
                   received, processed>>

----------------------------------------------------------------------------
(* The loop over the day windows, lines 86-113 *)

\* NextDay leaving the loop one day early
NextDay_short ==
    /\ ctl = "running" /\ pc = "next_day"
    /\ IF day_idx >= Len(windows) - 1
       THEN pc' = "done" /\ ctl' = "finished" /\ UNCHANGED day_idx
       ELSE day_idx' = day_idx + 1 /\ pc' = "request" /\ UNCHANGED ctl
    /\ UNCHANGED <<created_on, pulled_on, cleaned, rerun, prev_calls>>
    /\ UNCHANGED <<kwargs, start_date_input, now, attr_create_headers, names_bound,
                   CLEANERS, QUERIES, HEADERS, token, headers, err, end_date, url,
                   windows, query, calls, inflight, response, cleaner, edges, edge_idx,
                   emitted, received, processed>>

\* line 86: take the next day; line 113 when the days are exhausted
NextDay ==
    /\ ctl = "running" /\ pc = "next_day"
    /\ IF day_idx = Len(windows)
       THEN pc' = "done" /\ ctl' = "finished" /\ UNCHANGED day_idx
       ELSE day_idx' = day_idx + 1 /\ pc' = "request" /\ UNCHANGED ctl
    /\ UNCHANGED <<created_on, pulled_on, cleaned, rerun, prev_calls>>
    /\ UNCHANGED <<kwargs, start_date_input, now, attr_create_headers, names_bound,
                   CLEANERS, QUERIES, HEADERS, token, headers, err, end_date, url,
                   windows, query, calls, inflight, response, cleaner, edges, edge_idx,
                   emitted, received, processed>>

\* str.replace(old, new, 1): only the first occurrence is replaced
RECURSIVE ReplaceFirst(_, _, _)
ReplaceFirst(s, old, new) ==
    IF s = <<>> THEN <<>>
    ELSE IF Head(s) = old THEN new \o Tail(s)
    ELSE <<Head(s)>> \o ReplaceFirst(Tail(s), old, new)

\* build_query replacing the first occurrence of each placeholder only
build_query_first(template, date_day) ==
    ReplaceFirst(ReplaceFirst(template, ":fromdate:", date_day \o <<"T00:00:00.000000Z">>),
                 ":todate:", date_day \o <<"T23:59:59.999999Z">>)

\* lines 87-90: the template with both placeholders replaced
build_query(template, date_day) ==
    Replace(Replace(template, ":fromdate:", date_day \o <<"T00:00:00.000000Z">>),
            ":todate:", date_day \o <<"T23:59:59.999999Z">>)

\* SendRequest that does not wait for the answer: the request of the next
\* day is sent while this one is in flight
SendRequest_unawaited ==
    /\ ctl = "running" /\ pc = "request"
    /\ "transactions" \in DOMAIN QUERIES
    /\ query' = build_query(QUERIES["transactions"], windows[day_idx])
    /\ calls' = Append(calls, [day |-> windows[day_idx], url |-> url,
                               headers |-> headers[Self].map, data |-> query'])
    /\ inflight' = inflight + 1
    /\ IF day_idx < Len(windows)
       THEN day_idx' = day_idx + 1 /\ pc' = "request"
       ELSE day_idx' = day_idx /\ pc' = "awaiting"
    /\ UNCHANGED <<created_on, pulled_on, cleaned, rerun, prev_calls>>
    /\ UNCHANGED <<kwargs, start_date_input, now, attr_create_headers, names_bound,
                   CLEANERS, QUERIES, HEADERS, token, headers, ctl, err, end_date, url,
                   windows, response, cleaner, edges, edge_idx, emitted, received,
                   processed>>

\* SendRequest with an empty template in place of a missing registry entry
SendRequest_default ==
    /\ ctl = "running" /\ pc = "request"
    /\ query' = build_query(IF "transactions" \in DOMAIN QUERIES
                            THEN QUERIES["transactions"] ELSE <<>>,
                            windows[day_idx])
    /\ calls' = Append(calls, [day |-> windows[day_idx], url |-> url,
                               headers |-> headers[Self].map, data |-> query'])
    /\ inflight' = inflight + 1
    /\ pc' = "awaiting"
    /\ UNCHANGED <<err, ctl>>
    /\ QUERIES' = QUERIES
    /\ UNCHANGED <<created_on, pulled_on, cleaned, rerun, prev_calls>>
    /\ UNCHANGED <<kwargs, start_date_input, now, attr_create_headers, names_bound,
                   CLEANERS, HEADERS, token, headers, end_date, url, windows, day_idx,
                   response, cleaner, edges, edge_idx, emitted, received, processed>>

\* lines 87-95: build the body and hand the request to the transport
SendRequest ==
    /\ ctl = "running" /\ pc = "request"
    /\ IF "transactions" \notin DOMAIN QUERIES
       THEN Raise("KeyError: transactions") /\ UNCHANGED <<query, calls, inflight>>
       ELSE /\ query' = build_query(QUERIES["transactions"], windows[day_idx])
            /\ calls' = Append(calls, [day |-> windows[day_idx], url |-> url,
                                       headers |-> headers[Self].map, data |-> query'])
            /\ inflight' = inflight + 1
            /\ pc' = "awaiting"
            /\ UNCHANGED <<err, ctl>>
    /\ QUERIES' = QUERIES
    /\ UNCHANGED <<created_on, pulled_on, cleaned, rerun, prev_calls>>
    /\ UNCHANGED <<kwargs, start_date_input, now, attr_create_headers, names_bound,
                   CLEANERS, HEADERS, token, headers, end_date, url, windows, day_idx,
                   response, cleaner, edges, edge_idx, emitted, received, processed>>

\* line 91: client.get returns a response
Respond ==
    /\ ctl = "running" /\ pc = "awaiting"
    /\ \E r \in Responses :
        /\ response' = r
        /\ received' = Append(received, r)
    /\ inflight' = inflight - 1
    /\ pc' = "cleaner"
    /\ UNCHANGED <<created_on, pulled_on, cleaned, rerun, prev_calls>>
    /\ UNCHANGED <<kwargs, start_date_input, now, attr_create_headers, names_bound,
                   CLEANERS, QUERIES, HEADERS, token, headers, ctl, err, end_date, url,
                   windows, day_idx, query, calls, cleaner, edges, edge_idx, emitted,
                   processed>>

\* line 91: client.get raises (no connection, timeout)
TransportRaises ==
    /\ ctl = "running" /\ pc = "awaiting"
    /\ inflight' = inflight - 1
    /\ Raise("httpx.TransportError")
    /\ UNCHANGED <<created_on, pulled_on, cleaned, rerun, prev_calls>>
    /\ UNCHANGED <<kwargs, start_date_input, now, attr_create_headers, names_bound,
                   CLEANERS, QUERIES, HEADERS, token, headers, end_date, url, windows,
                   day_idx, query, calls, response, cleaner, edges, edge_idx, emitted,
                   received, processed>>

\* line 98: CLEANERS.get(key, {}): the registered function, or the default {}
lookup_cleaner == IF CleanerKey \in CLEANERS THEN "function" ELSE "dict"

\* CheckStatus without raise_for_status (line 101)
CheckStatus_unraised ==
    /\ ctl = "running" /\ pc = "cleaner"
    /\ cleaner' = lookup_cleaner
    /\ pc' = "json"
    /\ UNCHANGED <<created_on, pulled_on, cleaned, rerun, prev_calls>>
    /\ UNCHANGED <<kwargs, start_date_input, now, attr_create_headers, names_bound,
                   CLEANERS, QUERIES, HEADERS, token, headers, ctl, err, end_date, url,
                   windows, day_idx, query, calls, inflight, response, edges, edge_idx,
                   emitted, received, processed>>

\* CheckStatus sending the request of the same day again on a 4xx or 5xx
CheckStatus_retry ==
    /\ ctl = "running" /\ pc = "cleaner"
    /\ cleaner' = lookup_cleaner
    /\ pc' = (IF response.status >= 400 THEN "request" ELSE "json")
    /\ UNCHANGED <<err, ctl>>
    /\ UNCHANGED <<created_on, pulled_on, cleaned, rerun, prev_calls>>
    /\ UNCHANGED <<kwargs, start_date_input, now, attr_create_headers, names_bound,
                   CLEANERS, QUERIES, HEADERS, token, headers, end_date, url, windows,
                   day_idx, query, calls, inflight, response, edges, edge_idx, emitted,
                   received, processed>>

\* lines 97-101: look the cleaner up, then raise on a 4xx or 5xx status
CheckStatus ==
    /\ ctl = "running" /\ pc = "cleaner"
    /\ cleaner' = lookup_cleaner
    /\ IF response.status >= 400
       THEN Raise("httpx.HTTPStatusError")
       ELSE pc' = "json" /\ UNCHANGED <<err, ctl>>
    /\ UNCHANGED <<created_on, pulled_on, cleaned, rerun, prev_calls>>
    /\ UNCHANGED <<kwargs, start_date_input, now, attr_create_headers, names_bound,
                   CLEANERS, QUERIES, HEADERS, token, headers, end_date, url, windows,
                   day_idx, query, calls, inflight, response, edges, edge_idx, emitted,
                   received, processed>>

\* line 104: response.json()
ParseJson ==
    /\ ctl = "running" /\ pc = "json"
    /\ IF response.body.kind = "garbage"
       THEN Raise("JSONDecodeError")
       ELSE pc' = "edges" /\ UNCHANGED <<err, ctl>>
    /\ UNCHANGED <<created_on, pulled_on, cleaned, rerun, prev_calls>>
    /\ UNCHANGED <<kwargs, start_date_input, now, attr_create_headers, names_bound,
                   CLEANERS, QUERIES, HEADERS, token, headers, end_date, url, windows,
                   day_idx, query, calls, inflight, response, cleaner, edges, edge_idx,
                   emitted, received, processed>>

\* ExtractEdges reading a missing path as an empty list of edges
ExtractEdges_lenient ==
    /\ ctl = "running" /\ pc = "edges"
    /\ edges' = response.body.edges
    /\ edge_idx' = 0
    /\ pc' = "emit"
    /\ UNCHANGED <<err, ctl>>
    /\ UNCHANGED <<created_on, pulled_on, cleaned, rerun, prev_calls>>
    /\ UNCHANGED <<kwargs, start_date_input, now, attr_create_headers, names_bound,
                   CLEANERS, QUERIES, HEADERS, token, headers, end_date, url, windows,
                   day_idx, query, calls, inflight, response, cleaner, emitted, received,
                   processed>>

\* lines 106-108: response_data['data']['transactions']['edges'], the iterable
\* of the generator expression, is evaluated when the expression is created
ExtractEdges ==
    /\ ctl = "running" /\ pc = "edges"
    /\ IF response.body.kind = "nopath"
       THEN Raise("KeyError: data.transactions.edges") /\ UNCHANGED <<edges, edge_idx>>
       ELSE /\ edges' = response.body.edges
            /\ edge_idx' = 0
            /\ pc' = "emit"
            /\ UNCHANGED <<err, ctl>>
    /\ UNCHANGED <<created_on, pulled_on, cleaned, rerun, prev_calls>>
    /\ UNCHANGED <<kwargs, start_date_input, now, attr_create_headers, names_bound,
                   CLEANERS, QUERIES, HEADERS, token, headers, end_date, url, windows,
                   day_idx, query, calls, inflight, response, cleaner, emitted, received,
                   processed>>

\* EmitNext with the records of the whole day normalized before the first
\* of them is yielded (a list in place of the generator expression)
EmitNext_eager ==
    /\ ctl = "running" /\ pc = "emit"
    /\ IF edge_idx = Len(edges)
       THEN /\ processed' = Append(processed, windows[day_idx])
            /\ edges' = <<>>
            /\ edge_idx' = 0
            /\ pc' = "next_day"
            /\ UNCHANGED <<err, ctl, emitted, cleaned>>
       ELSE IF cleaner = "dict"
       THEN /\ Raise("TypeError: 'dict' object is not callable")
            /\ UNCHANGED <<edges, edge_idx, emitted, processed, cleaned>>
       ELSE /\ emitted' = Append(emitted,
                    clean_shopify_partners_transactions(windows[day_idx], edges[edge_idx + 1]))
            /\ cleaned' = (IF edge_idx = 0 THEN cleaned + Len(edges) ELSE cleaned)
            /\ edge_idx' = edge_idx + 1
            /\ ctl' = "suspended"
            /\ UNCHANGED <<pc, err, edges, processed>>
    /\ UNCHANGED <<created_on, pulled_on, rerun, prev_calls>>
    /\ UNCHANGED <<kwargs, start_date_input, now, attr_create_headers, names_bound,
                   CLEANERS, QUERIES, HEADERS, token, headers, end_date, url, windows,
                   day_idx, query, calls, inflight, response, cleaner, received>>

\* EmitNext treating an empty list of edges as a malformed answer
EmitNext_strict ==
    /\ ctl = "running" /\ pc = "emit"
    /\ IF Len(edges) = 0
       THEN /\ Raise("ValueError: no edges")
            /\ UNCHANGED <<edges, edge_idx, emitted, processed, cleaned>>
       ELSE IF edge_idx = Len(edges)
       THEN /\ processed' = Append(processed, windows[day_idx])
            /\ edges' = <<>>
            /\ edge_idx' = 0
            /\ pc' = "next_day"
            /\ UNCHANGED <<err, ctl, emitted, cleaned>>
       ELSE IF cleaner = "dict"
       THEN /\ Raise("TypeError: 'dict' object is not callable")
            /\ UNCHANGED <<edges, edge_idx, emitted, processed, cleaned>>
       ELSE /\ emitted' = Append(emitted,
                    clean_shopify_partners_transactions(windows[day_idx], edges[edge_idx + 1]))
            /\ cleaned' = cleaned + 1
            /\ edge_idx' = edge_idx + 1
            /\ ctl' = "suspended"
            /\ UNCHANGED <<pc, err, edges, processed>>
    /\ UNCHANGED <<created_on, pulled_on, rerun, prev_calls>>
    /\ UNCHANGED <<kwargs, start_date_input, now, attr_create_headers, names_bound,
                   CLEANERS, QUERIES, HEADERS, token, headers, end_date, url, windows,
                   day_idx, query, calls, inflight, response, cleaner, received>>

\* lines 106-109: take the next edge, call the cleaner on it and yield the
\* result; when the edges are exhausted the generator expression is dropped
\* and the window is over
EmitNext ==
    /\ ctl = "running" /\ pc = "emit"
    /\ IF edge_idx = Len(edges)
       THEN /\ processed' = Append(processed, windows[day_idx])
            /\ edges' = <<>>
            /\ edge_idx' = 0
            /\ pc' = "next_day"
            /\ UNCHANGED <<err, ctl, emitted, cleaned>>
       ELSE IF cleaner = "dict"
       THEN /\ Raise("TypeError: 'dict' object is not callable")
            /\ UNCHANGED <<edges, edge_idx, emitted, processed, cleaned>>
       ELSE /\ emitted' = Append(emitted,
                    clean_shopify_partners_transactions(windows[day_idx], edges[edge_idx + 1]))
            /\ cleaned' = cleaned + 1
            /\ edge_idx' = edge_idx + 1
            /\ ctl' = "suspended"
            /\ UNCHANGED <<pc, err, edges, processed>>
    /\ UNCHANGED <<created_on, pulled_on, rerun, prev_calls>>
    /\ UNCHANGED <<kwargs, start_date_input, now, attr_create_headers, names_bound,
                   CLEANERS, QUERIES, HEADERS, token, headers, end_date, url, windows,
                   day_idx, query, calls, inflight, response, cleaner, received>>

----------------------------------------------------------------------------

Next ==
    \/ \E c \in Clients : CreateHeaders(c)
    \/ Tick
    \/ Pull
    \/ Validate
    \/ ParseDates
    \/ BuildUrlAndHeaders
    \/ StartWindower
    \/ NextDay
    \/ SendRequest
    \/ Respond
    \/ TransportRaises
    \/ CheckStatus
    \/ ParseJson
    \/ ExtractEdges
    \/ EmitNext

Spec == Init /\ [][Next]_vars

----------------------------------------------------------------------------
(* A second call of shopify_partners_transactions, lines 47-50 *)

\* once the first generator is finished, the caller calls the method again
\* on the same client with the same start_date: a new generator is created,
\* with fresh locals; the client keeps its headers and the module its
\* registries
Reinvoke ==
    /\ ctl = "finished" /\ ~rerun
    /\ Len(windows) <= MaxRerunSpan
    /\ rerun' = TRUE
    /\ prev_calls' = calls
    /\ kwargs' = (IF start_date_input # <<>>
                  THEN [given |-> TRUE, start_date |-> start_date_input]
                  ELSE kwargs)
    /\ start_date_input' = <<>>
    /\ pc' = "start"
    /\ ctl' = "suspended"
    /\ err' = ""
    /\ end_date' = <<>>
    /\ url' = <<>>
    /\ windows' = <<>>
    /\ day_idx' = 0
    /\ query' = <<>>
    /\ calls' = <<>>
    /\ inflight' = 0
    /\ response' = NoResponse
    /\ cleaner' = "none"
    /\ edges' = <<>>
    /\ edge_idx' = 0
    /\ emitted' = <<>>
    /\ received' = <<>>
    /\ processed' = <<>>
    /\ created_on' = now
    /\ pulled_on' = <<>>
    /\ cleaned' = 0
    /\ UNCHANGED <<now, attr_create_headers, names_bound, CLEANERS, QUERIES, HEADERS,
                   token, headers>>

NextTwice == Next \/ Reinvoke

SpecTwice == Init /\ [][NextTwice]_vars

----------------------------------------------------------------------------
(* Properties *)

IsPrefix(s, t) == Len(s) <= Len(t) /\ SubSeq(t, 1, Len(s)) = s

\* the call was made with start_date absent or empty (line 76 drops a
\* non-empty start_date from kwargs only after start_date_input holds it)
MissingStartDate ==
    /\ ~kwargs.given \/ kwargs.start_date = <<>>
    /\ start_date_input = <<>>

\* C1: a run whose start_date is absent or the empty string can only end in
\* failure, with the ValueError of line 65, and in every state of such a run
\* no transport call has been made, none is in flight and no record has been
\* emitted.
C1_MissingStartDateFails ==
    MissingStartDate =>
        /\ pc \in {"start", "failed"}
        /\ pc = "failed" => err = "ValueError: The parameter start_date is required."
        /\ calls = <<>>
        /\ inflight = 0
        /\ emitted = <<>>

C1_Witness ==
    /\ MissingStartDate
    /\ kwargs.given
    /\ pc = "failed"
    /\ attr_create_headers /\ names_bound

\* the days of the windows before window i
DaysBefore(i) == {windows[j] : j \in 1..(i - 1)}

C2_StatusState ==
    \A i \in 1..Len(received) :
        received[i].status >= 400 =>
            /\ i = Len(received)
            /\ i = Len(calls)
            /\ pc \in {"cleaner", "failed"}
            /\ pc = "failed" => err = "httpx.HTTPStatusError"
            /\ \A j \in 1..Len(emitted) : emitted[j].day \in DaysBefore(i)

Expected(i) ==
    [j \in 1..Len(received[i].body.edges) |->
        clean_shopify_partners_transactions(windows[i], received[i].body.edges[j])]

\* the emitted records tagged with day d, in the order of their emission
RecordsOf(d) == SelectSeq(emitted, LAMBDA r : r.day = d)

WellFormed(r) == r.status < 400 /\ r.body.kind = "edges"

EarlyErrors ==
    {"ValueError: The parameter start_date is required.", "ValueError: isoparse",
     "AttributeError: create_headers"}

\* the body of _start_days_till_now has run
WindowerRan ==
    /\ pc \notin {"start", "parse", "build", "windower"}
    /\ pc = "failed" => err \notin EarlyErrors

\* date.toordinal(): days since 0001-01-01, that day being 1
RECURSIVE DaysBeforeMonth(_, _)
DaysBeforeMonth(y, m) ==
    IF m = 1 THEN 0 ELSE DaysBeforeMonth(y, m - 1) + DaysInMonth(y, m - 1)

toordinal(dt) ==
    LET y == dt[1] - 1
    IN  365 * y + (y \div 4) - (y \div 100) + (y \div 400)
        + DaysBeforeMonth(dt[1], dt[2]) + dt[3]

\* the date a 'YYYY-MM-DD' text denotes
DateOf(text) ==
    LET f == SplitDash(text) IN <<ParseInt(f[1]), ParseInt(f[2]), ParseInt(f[3])>>

IsDayText(text) ==
    /\ Len(text) = 10
    /\ isoparse_ok(text)

\* C4: whenever _start_days_till_now has run on a valid start date s that is
\* on or before today, it has yielded exactly (today - s).days + 1 day
\* strings, the first being s and the last today, each one the day after the
\* one before it.
C4_OneDayStringPerDay ==
    (WindowerRan /\ IsDayText(start_date_input) /\ DateLeq(DateOf(start_date_input), now)) =>
        /\ Len(windows) = toordinal(now) - toordinal(DateOf(start_date_input)) + 1
        /\ windows[1] = start_date_input
        /\ windows[Len(windows)] = strftime(now)
        /\ \A i \in 1..(Len(windows) - 1) :
               toordinal(DateOf(windows[i + 1])) = toordinal(DateOf(windows[i])) + 1

\* C5: a run whose start date is strictly after today, once over, has ended
\* in Done with an empty window sequence, no transport call and no record.
C5_FutureStartEndsDone ==
    (ctl = "finished" /\ IsDayText(start_date_input)
        /\ ~DateLeq(DateOf(start_date_input), now)) =>
        /\ pc = "done"
        /\ windows = <<>>
        /\ calls = <<>>
        /\ emitted = <<>>

\* the pieces a template stands for on day d, atom by atom
RECURSIVE Substituted(_, _)
Substituted(template, d) ==
    IF template = <<>> THEN <<>>
    ELSE (CASE Head(template) = ":fromdate:" -> d \o <<"T00:00:00.000000Z">>
            [] Head(template) = ":todate:" -> d \o <<"T23:59:59.999999Z">>
            [] OTHER -> <<Head(template)>>)
         \o Substituted(Tail(template), d)

\* number of occurrences of an atom
RECURSIVE Count(_, _)
Count(s, atom) ==
    IF s = <<>> THEN 0 ELSE (IF Head(s) = atom THEN 1 ELSE 0) + Count(Tail(s), atom)

\* the body of call i is the substituted template of window i
BodyOk(i) ==
    LET d == calls[i].day
        template == QUERIES["transactions"]
    IN  /\ d = windows[i]
        /\ calls[i].data = Substituted(template, d)
        /\ ~Contains(calls[i].data, ":fromdate:")
        /\ ~Contains(calls[i].data, ":todate:")
        /\ Count(calls[i].data, "T00:00:00.000000Z") = Count(template, ":fromdate:")
        /\ Count(calls[i].data, "T23:59:59.999999Z") = Count(template, ":todate:")

HeadersWith(t) == [FrozenHeaders EXCEPT !["X-Shopify-Access-Token"] = t]

C7_HeaderState ==
    /\ HEADERS = FrozenHeaders
    /\ HEADERS["X-Shopify-Access-Token"] = <<":token:">>
    /\ \A c \in Clients : headers[c].set => headers[c].map = HeadersWith(token[c])

\* C7: HEADERS keeps the ':token:' placeholder whatever is composed; the map
\* of every client that has composed its headers holds that client's token
\* (equal maps for equal tokens, each its own token otherwise); and a
\* composition, repeated or for another client, changes no map already
\* composed.
C7_HeadersComposed ==
    /\ []C7_HeaderState
    /\ [][\A c \in Clients : headers[c].set => headers'[c] = headers[c]]_vars

C7_Witness ==
    /\ headers["c1"].set /\ headers["c2"].set
    /\ token["c1"] # token["c2"]
    /\ headers["c1"].map # headers["c2"].map
    /\ pc = "done"

\* the records of the windows answered so far, in order
RECURSIVE ExpectedUpTo(_)
ExpectedUpTo(n) == IF n = 0 THEN <<>> ELSE ExpectedUpTo(n - 1) \o Expected(n)

C9_InFlightState ==
    /\ inflight \in {0, 1}
    /\ inflight = 1 <=> pc = "awaiting"
    /\ pc # "failed" => Len(calls) = Len(received) + inflight
    /\ Len(calls) <= Len(processed) + 1

----------------------------------------------------------------------------
(* The end boundary of the window sequence, lines 141-146 *)

WindowerErrors ==
    {"ValueError: int", "IndexError", "NameError: date", "ValueError: date"}

\* the rrule of lines 142-146 has been built
WindowsBuilt ==
    /\ WindowerRan
    /\ pc = "failed" => err \notin WindowerErrors

----------------------------------------------------------------------------
(* The run as a whole, lines 47-113 *)

\* a start date on or before today, both registries populated, and a
\* transport that has answered every request so far with a 2xx status and a
\* body holding data.transactions.edges
HappyRun ==
    /\ IsDayText(start_date_input)
    /\ DateLeq(DateOf(start_date_input), now)
    /\ CleanerKey \in CLEANERS
    /\ "transactions" \in DOMAIN QUERIES
    /\ err # "httpx.TransportError"
    /\ \A i \in 1..Len(received) : WellFormed(received[i])

\* C12: a run on a valid start date on or before today, with both
\* registries populated and every request answered 2xx with a well-formed
\* body, never ends Failed: once it is over it is Done, with exactly one
\* transport call per window and the headers of the client composed.
C12_HappyRunEndsDone ==
    (HappyRun /\ ctl = "finished") =>
        /\ pc = "done"
        /\ Len(calls) = Len(windows)
        /\ \A i \in 1..Len(calls) : calls[i].day = windows[i]
        /\ headers[Self].set

----------------------------------------------------------------------------
(* The generator expression of lines 106-109 *)

\* in every state the cleaner has been called exactly once per emitted
\* record, and within a window on the first edge_idx of its edges
C13_LazyState ==
    /\ cleaned = Len(emitted)
    /\ pc = "emit" => edge_idx = Len(RecordsOf(windows[day_idx]))

----------------------------------------------------------------------------
(* No retry, lines 86-109 *)

\* the errors raised from line 101 on
LoopErrors ==
    {"httpx.HTTPStatusError", "JSONDecodeError", "KeyError: data.transactions.edges",
     "TypeError: 'dict' object is not callable"}

\* call i is the call of window i, and no two calls are for the same day
C14_CallState ==
    /\ Len(calls) <= Len(windows)
    /\ \A i \in 1..Len(calls) : calls[i].day = windows[i]
    /\ \A i, j \in 1..Len(calls) : i < j => calls[i].day # calls[j].day
    /\ pc = "failed" => ctl = "finished"

\* the day of the last call made
LastDay(cs) == toordinal(DateOf(cs[Len(cs)].day))

----------------------------------------------------------------------------
(* Malformed bodies, lines 100-109 *)

\* a 2xx answer whose body is not JSON or has no data.transactions.edges
Malformed(r) == r.status < 400 /\ r.body.kind \in {"garbage", "nopath"}

----------------------------------------------------------------------------
(* A day without transactions, lines 97-109 *)

\* a 2xx answer whose edges list is present and empty
Quiet(r) == WellFormed(r) /\ r.body.edges = <<>>

----------------------------------------------------------------------------
(* A registry without the 'transactions' template, lines 86-95 *)

NoTemplate == "transactions" \notin DOMAIN QUERIES

----------------------------------------------------------------------------
(* The URL and the headers of every call, lines 78-95 and 115-122 *)

\* https://partners.shopify.com/<organization_id>/api/2022-01/graphql.json
UrlOf(c) ==
    <<"https://", "partners.shopify.com/">> \o organization_id[c]
    \o <<"/", "api/2022-01/", "graphql.json">>

C18_CallState ==
    /\ token = Tokens
    /\ calls # <<>> => headers[Self].set /\ url = UrlOf(Self)
    /\ \A i \in 1..Len(calls) :
          /\ calls[i].url = UrlOf(Self)
          /\ ~Contains(calls[i].url, ":organization_id:")
          /\ DOMAIN calls[i].headers = HeaderNames
          /\ calls[i].headers["Content-Type"] = <<"application/graphql">>
          /\ calls[i].headers["X-Shopify-Access-Token"] = token[Self]
          /\ calls[i].headers["X-Shopify-Access-Token"] # <<":token:">>
          /\ calls[i].headers = headers[Self].map

----------------------------------------------------------------------------
(* No checkpoint, lines 47-113 *)

\* the smaller of two lengths
Shorter(s, t) == IF Len(s) <= Len(t) THEN Len(s) ELSE Len(t)

====
